---- MODULE Spec2Model ----
(***************************************************************************)
(* A model of src/app.py, the customer dashboard: the cleaner clean_data,  *)
(* the e-mail domain extraction get_email_domain, the company-name matcher *)
(* suggest_company_name, the cached loader load_data and the script main.  *)
(*                                                                         *)
(* Strings are tuples of one-character strings (<<"a","@","B">> is "a@B"), *)
(* so that split, lower and the similarity ratio are computed and not      *)
(* assumed.  A missing cell (pandas NaN) is the one-element tuple NaN,     *)
(* which is no string of the model: its only element is not a character.   *)
(***************************************************************************)
EXTENDS Integers, Sequences, FiniteSets, TLC

VARIABLES
    pc,               \* position of the operation under way
    table,            \* SpecClean: the DataFrame handed to clean_data
    out,              \* SpecClean: clean_data(table)
    out2,             \* SpecClean: clean_data(clean_data(table))
    email,            \* SpecDomain: the argument of get_email_domain
    domain,           \* SpecDomain: its return value
    FUZZY_AVAILABLE,  \* module global set by the import at lines 10-15
    input_name,       \* SpecSuggest: first argument of suggest_company_name
    company_list,     \* second argument of suggest_company_name
    threshold,        \* third argument of suggest_company_name
    limit,            \* SpecSuggest: the number of results the caller wants
    suggestions,      \* the list suggest_company_name returned
    file,             \* SpecApp: customers-100.csv on disk, or NoFile
    cache,            \* SpecApp: the value st.cache_data holds for load_data
    df,               \* SpecApp: main's local df in the current script run
    view,             \* SpecApp: the view the sidebar radio selected
    search_term,      \* SpecApp: the text of the Table view's search box
    company_input,    \* SpecApp: the text of the suggestion box
    edited_df,        \* SpecApp: what st.data_editor returned in the Table view
    exception,        \* SpecApp: the exception that left main, or "none"
    st_error,         \* SpecApp: whether st.error showed the not-found message
    suggest_calls,    \* SpecApp: calls of suggest_company_name made by main
    run               \* SpecApp: number of the current script run

vars == <<pc, table, out, out2, email, domain, FUZZY_AVAILABLE, input_name,
          company_list, threshold, limit, suggestions, file, cache, df, view,
          search_term, company_input, edited_df, exception, st_error,
          suggest_calls, run>>

----------------------------------------------------------------------------
(* Bounds of the model.                                                    *)

MaxRows == 3
MaxFileRows == 2
MaxEmailLen == 5
MaxCandidates == 4
MaxLimit == 3
MaxRuns == 2

----------------------------------------------------------------------------
(* Values.                                                                 *)

NaN == <<"NaN">>
Idle == <<"idle">>

Min(a, b) == IF a <= b THEN a ELSE b

Lower(ch) ==
    CASE ch = "A" -> "a"
      [] ch = "B" -> "b"
      [] ch = "C" -> "c"
      [] OTHER -> ch

\* str.lower()
lower(s) == [i \in 1..Len(s) |-> Lower(s[i])]

----------------------------------------------------------------------------
(* DataFrames: a set of column labels, the index (row labels) and the rows,*)
(* each row a function from the column labels to cell values.              *)

DataFrame(columns, index, rows) ==
    [kind |-> "DataFrame", columns |-> columns, index |-> index, rows |-> rows]

KeyError == [kind |-> "KeyError"]

IsFrame(x) == x.kind = "DataFrame"

\* The positions of the set keep, in increasing order.
RECURSIVE Positions(_)
Positions(keep) ==
    IF keep = {} THEN <<>>
    ELSE LET first == CHOOSE i \in keep : \A j \in keep : i <= j
         IN  <<first>> \o Positions(keep \ {first})

\* The rows of frame at the positions ps, with their index labels.
TakeRows(frame, ps) ==
    DataFrame(frame.columns,
              [k \in 1..Len(ps) |-> frame.index[ps[k]]],
              [k \in 1..Len(ps) |-> frame.rows[ps[k]]])

----------------------------------------------------------------------------
(* The cleaner, lines 24-31.                                               *)

\* A mutant of drop_duplicates: DataFrame.drop_duplicates(keep='last').
drop_duplicates_keep_last(frame) ==
    TakeRows(frame,
             Positions({i \in 1..Len(frame.rows) :
                           ~\E j \in (i + 1)..Len(frame.rows) :
                               frame.rows[j] = frame.rows[i]}))

\* DataFrame.drop_duplicates(): over all columns, the first occurrence kept,
\* two missing cells counting as equal.
drop_duplicates(frame) ==
    TakeRows(frame,
             Positions({i \in 1..Len(frame.rows) :
                           ~\E j \in 1..(i - 1) : frame.rows[j] = frame.rows[i]}))

\* A mutant of dropna: labels of subset that are no column are skipped.
dropna_ignore_missing(frame, subset) ==
    TakeRows(frame,
             Positions({i \in 1..Len(frame.rows) :
                           \A c \in subset \cap frame.columns : frame.rows[i][c] # NaN}))

\* DataFrame.dropna(subset=...): KeyError when a label of subset is no
\* column; otherwise the rows with no missing cell in subset.  The empty
\* string is a value, not a missing cell.
dropna(frame, subset) ==
    IF ~(subset \subseteq frame.columns) THEN KeyError
    ELSE TakeRows(frame,
                  Positions({i \in 1..Len(frame.rows) :
                                \A c \in subset : frame.rows[i][c] # NaN}))

\* DataFrame.drop(columns=labels, errors='ignore').
drop(frame, labels) ==
    DataFrame(frame.columns \ labels,
              frame.index,
              [k \in 1..Len(frame.rows) |->
                  [c \in frame.columns \ labels |-> frame.rows[k][c]]])

RequiredColumns == {"First Name", "Email"}
PrunedColumns == {"Index", "Subscription Date"}

\* clean_data(df): each step returns a new frame; the argument is untouched.
clean_data(frame) ==
    LET deduplicated == drop_duplicates(frame)
        complete == dropna(deduplicated, RequiredColumns)
    IN  IF IsFrame(complete) THEN drop(complete, PrunedColumns) ELSE KeyError

----------------------------------------------------------------------------
(* SpecClean: clean_data applied to every one of the bounded             *)
(* tables of InitClean, and once more to its own result.                   *)

Ann == <<"A", "n">>
AnnMail == <<"a", "@", "x">>

CellValues(c) ==
    CASE c = "First Name" -> {NaN, <<>>, Ann}
      [] c = "Email" -> {NaN, <<>>, AnnMail}
      [] c = "Index" -> {<<"1">>, <<"2">>}
      [] c = "Subscription Date" -> {<<"d">>}
      [] c = "Company" -> {<<"C">>}

AllCells ==
    UNION {CellValues(c) :
             c \in {"First Name", "Email", "Index", "Subscription Date", "Company"}}

RowsOver(columns) ==
    {r \in [columns -> AllCells] : \A c \in columns : r[c] \in CellValues(c)}

ColumnSets ==
    { {"First Name", "Email"},
      {"Index", "First Name", "Email"},
      {"Subscription Date", "First Name", "Email"},
      {"Index", "Company"},
      {"Index", "First Name"} }

\* A frame as read_csv or the DataFrame constructor numbers it: 0, 1, 2, ...
FreshFrame(columns, rows) ==
    DataFrame(columns, [k \in 1..Len(rows) |-> k - 1], rows)

InitClean ==
    /\ pc = "clean_start"
    /\ \E columns \in ColumnSets :
         \E n \in 0..MaxRows :
           \E rows \in [1..n -> RowsOver(columns)] :
             table = FreshFrame(columns, rows)
    /\ out = Idle /\ out2 = Idle
    /\ email = Idle /\ domain = Idle
    /\ FUZZY_AVAILABLE = TRUE
    /\ input_name = Idle /\ company_list = Idle /\ threshold = 0 /\ limit = 0
    /\ suggestions = Idle
    /\ file = Idle /\ cache = Idle /\ df = Idle /\ view = Idle /\ edited_df = Idle
    /\ search_term = Idle /\ company_input = Idle
    /\ exception = "none" /\ st_error = FALSE /\ suggest_calls = 0 /\ run = 0

Clean ==
    /\ pc = "clean_start"
    /\ out' = clean_data(table)
    /\ pc' = "cleaned"
    /\ UNCHANGED <<table, out2, email, domain, FUZZY_AVAILABLE, input_name,
                   company_list, threshold, limit, suggestions, file, cache, df,
                   view, search_term, company_input, edited_df, exception,
                   st_error, suggest_calls, run>>

CleanAgain ==
    /\ pc = "cleaned"
    /\ IsFrame(out)
    /\ out2' = clean_data(out)
    /\ pc' = "recleaned"
    /\ UNCHANGED <<table, out, email, domain, FUZZY_AVAILABLE, input_name,
                   company_list, threshold, limit, suggestions, file, cache, df,
                   view, search_term, company_input, edited_df, exception,
                   st_error, suggest_calls, run>>

NextClean == Clean \/ CleanAgain

SpecClean == InitClean /\ [][NextClean]_vars

----------------------------------------------------------------------------
(* Claims about clean_data, checked under SpecClean.                       *)

Cleaned == pc = "cleaned" /\ IsFrame(out)

\* A cell that is neither missing nor the empty string.
NonEmpty(cell) == cell # NaN /\ cell # <<>>

\* The row of table that the k-th row of out came from.
SourceRow(k) == table.rows[out.index[k] + 1]

\* The first position of table that holds the same row as position p.
FirstOccurrence(p) ==
    CHOOSE q \in 1..p :
        /\ table.rows[q] = table.rows[p]
        /\ \A j \in 1..(q - 1) : table.rows[j] # table.rows[p]

\* The positions of out whose source row equals the row at position p of table.
CopiesKept(p) == {k \in 1..Len(out.rows) : SourceRow(k) = table.rows[p]}

Duplicated(p) == \E q \in 1..Len(table.rows) : q # p /\ table.rows[q] = table.rows[p]

\* The output is a subsequence of the input: the index labels are positions of
\* the input in increasing order, and each output row is its source row with
\* the pruned columns removed and every other cell as it was.
OutputIsSubsequence ==
    /\ out.columns = table.columns \ PrunedColumns
    /\ \A k \in 1..Len(out.rows) : out.index[k] \in 0..(Len(table.rows) - 1)
    /\ \A k \in 1..(Len(out.rows) - 1) : out.index[k] < out.index[k + 1]
    /\ \A k \in 1..Len(out.rows) :
         out.rows[k] = [c \in out.columns |-> SourceRow(k)[c]]

\* C1: the table clean_data returns holds no two rows that are identical in
\* every field of the returned table, also when an Index or Subscription Date
\* column was pruned.
C1_NoIdenticalRows ==
    Cleaned =>
        \A i, j \in 1..Len(out.rows) : i < j => out.rows[i] # out.rows[j]

\* C2: every row of clean_data(table) has a non-empty First Name and a
\* non-empty Email; a row where either is missing or the empty string is gone.
C2_RequiredNonEmpty ==
    Cleaned =>
        \A k \in 1..Len(out.rows) :
            NonEmpty(out.rows[k]["First Name"]) /\ NonEmpty(out.rows[k]["Email"])

\* C3 as stated: of a row that occurs more than once, exactly one copy is
\* kept, the first occurrence, and the output is a subsequence of the input.
C3_ExactlyOneCopy ==
    Cleaned =>
        /\ OutputIsSubsequence
        /\ \A p \in 1..Len(table.rows) :
             Duplicated(p) =>
                 /\ Cardinality(CopiesKept(p)) = 1
                 /\ \A k \in CopiesKept(p) : out.index[k] + 1 = FirstOccurrence(p)

\* C3 as amended: of every row, the first occurrence and no other copy is
\* kept when its First Name and Email are both present, and no copy is kept
\* when either is missing; the output is a subsequence of the input, in the
\* input's order and with no cell changed.
C3_FirstOccurrenceKept ==
    Cleaned =>
        /\ OutputIsSubsequence
        /\ \A p \in 1..Len(table.rows) :
             IF table.rows[p]["First Name"] # NaN /\ table.rows[p]["Email"] # NaN
             THEN /\ Cardinality(CopiesKept(p)) = 1
                  /\ \A k \in CopiesKept(p) : out.index[k] + 1 = FirstOccurrence(p)
             ELSE CopiesKept(p) = {}

\* A row that occurs at positions 1 and 3 is kept once, at position 1, ahead
\* of the row of position 2.
C3_Witness ==
    /\ Cleaned
    /\ Len(table.rows) = 3
    /\ table.rows[1] = table.rows[3]
    /\ table.rows[1] # table.rows[2]
    /\ out.index = <<0, 1>>

\* C4: clean_data is idempotent, clean_data(clean_data(table)) is
\* clean_data(table): the same rows in the same order under the same columns.
C4_Idempotent ==
    pc = "recleaned" => out2 = out

----------------------------------------------------------------------------
(* The e-mail domain extraction, lines 34-38.                              *)

Unknown == <<"U", "n", "k", "n", "o", "w", "n">>

\* A str of the model; the missing cell NaN (a float in pandas) is none.
IsStr(x) == x # NaN

\* str.split(sep): the pieces of s between the occurrences of sep.
RECURSIVE split(_, _)
split(s, sep) ==
    IF \A i \in 1..Len(s) : s[i] # sep THEN <<s>>
    ELSE LET i == CHOOSE k \in 1..Len(s) :
                      s[k] = sep /\ \A j \in 1..(k - 1) : s[j] # sep
         IN  <<SubSeq(s, 1, i - 1)>> \o split(SubSeq(s, i + 1, Len(s)), sep)

\* get_email_domain(email): email.split('@')[1].lower(); the bare except turns
\* the AttributeError of a non-string and the IndexError of a string without
\* '@' into 'Unknown'.  Python's [1] is the second piece, here [2].
get_email_domain(e) ==
    IF ~IsStr(e) THEN Unknown
    ELSE IF Len(split(e, "@")) < 2 THEN Unknown
    ELSE lower(split(e, "@")[2])

----------------------------------------------------------------------------
(* SpecDomain: get_email_domain applied to NaN and to every string over    *)
(* EmailAlphabet of at most MaxEmailLen characters.                        *)

EmailAlphabet == {"a", "B", "@"}

InitDomain ==
    /\ pc = "domain_start"
    /\ \/ email = NaN
       \/ \E n \in 0..MaxEmailLen : email \in [1..n -> EmailAlphabet]
    /\ domain = Idle
    /\ table = Idle /\ out = Idle /\ out2 = Idle
    /\ FUZZY_AVAILABLE = TRUE
    /\ input_name = Idle /\ company_list = Idle /\ threshold = 0 /\ limit = 0
    /\ suggestions = Idle
    /\ file = Idle /\ cache = Idle /\ df = Idle /\ view = Idle /\ edited_df = Idle
    /\ search_term = Idle /\ company_input = Idle
    /\ exception = "none" /\ st_error = FALSE /\ suggest_calls = 0 /\ run = 0

ExtractDomain ==
    /\ pc = "domain_start"
    /\ domain' = get_email_domain(email)
    /\ pc' = "extracted"
    /\ UNCHANGED <<table, out, out2, email, FUZZY_AVAILABLE, input_name,
                   company_list, threshold, limit, suggestions, file, cache, df,
                   view, search_term, company_input, edited_df, exception,
                   st_error, suggest_calls, run>>

NextDomain == ExtractDomain

SpecDomain == InitDomain /\ [][NextDomain]_vars

\* The whole of s after its first '@'.
AfterFirstAt(s) ==
    LET i == CHOOSE k \in 1..Len(s) : s[k] = "@" /\ \A j \in 1..(k - 1) : s[j] # "@"
    IN  SubSeq(s, i + 1, Len(s))

HasAt(s) == \E i \in 1..Len(s) : s[i] = "@"

\* C6: get_email_domain never fails; for a string with at least one '@' it
\* returns everything after the first '@', lower-cased, also when there are
\* several '@'; for a string without '@', the empty string or a non-string
\* it returns 'Unknown'.
C6_DomainOf ==
    pc = "extracted" =>
        IF IsStr(email) /\ HasAt(email)
        THEN domain = lower(AfterFirstAt(email))
        ELSE domain = Unknown

\* The cases of C6 that the code meets: strings with exactly one '@', strings
\* with none, and non-strings.
C6_SingleAt ==
    pc = "extracted" =>
        IF IsStr(email) /\ HasAt(email)
        THEN Len(split(email, "@")) = 2 => domain = lower(AfterFirstAt(email))
        ELSE domain = Unknown

----------------------------------------------------------------------------
(* The matcher, lines 41-49.                                               *)

Max(a, b) == IF a >= b THEN a ELSE b

\* The length of a longest common subsequence of a and b: the matching
\* characters M of the similarity ratio 2 * M / T.
RECURSIVE MatchingCharacters(_, _)
MatchingCharacters(a, b) ==
    IF a = <<>> \/ b = <<>> THEN 0
    ELSE IF Head(a) = Head(b) THEN 1 + MatchingCharacters(Tail(a), Tail(b))
    ELSE Max(MatchingCharacters(Tail(a), b), MatchingCharacters(a, Tail(b)))

\* fuzz.ratio(s1, s2) of fuzzywuzzy: 100 for equal strings, 0 when either is
\* empty, otherwise 100 * 2 * M / T rounded to the nearest integer (no ratio
\* of strings this short lies halfway between two integers).
fuzz_ratio(s1, s2) ==
    IF s1 = s2 THEN 100
    ELSE IF Len(s1) = 0 \/ Len(s2) = 0 THEN 0
    ELSE LET M == MatchingCharacters(s1, s2)
             T == Len(s1) + Len(s2)
         IN  (2 * (200 * M) + T) \div (2 * T)

\* The score line 46 gives a candidate.
Score(name, company) == fuzz_ratio(lower(name), lower(company))

\* A mutant of InsertByScore: a candidate goes ahead of the earlier candidates
\* of equal score, as a sort that is not stable may leave it.
InsertByScore_TiesFirst(sorted_prefix, item) ==
    LET n == Cardinality({k \in 1..Len(sorted_prefix) : sorted_prefix[k][2] > item[2]})
    IN  SubSeq(sorted_prefix, 1, n) \o <<item>>
            \o SubSeq(sorted_prefix, n + 1, Len(sorted_prefix))

\* One step of sorted(..., key=lambda x: x[1], reverse=True): item, which
\* came after every element of sorted_prefix, goes behind the elements whose
\* score is greater or equal (the sort is stable, also with reverse=True).
InsertByScore(sorted_prefix, item) ==
    LET n == Cardinality({k \in 1..Len(sorted_prefix) : sorted_prefix[k][2] >= item[2]})
    IN  SubSeq(sorted_prefix, 1, n) \o <<item>>
            \o SubSeq(sorted_prefix, n + 1, Len(sorted_prefix))

\* sorted(suggestions, key=lambda x: x[1], reverse=True)
sorted_by_score(s) ==
    LET F[i \in 0..Len(s)] == IF i = 0 THEN <<>> ELSE InsertByScore(F[i - 1], s[i])
    IN  F[Len(s)]

\* The cap of the slice [:3] at line 49.
ResultCap == 3

\* The default of the parameter threshold, line 41.
DefaultThreshold == 80

\* A mutant of Truncate: the slice one element too long.
Truncate_OneMore(s) == SubSeq(s, 1, Min(ResultCap + 1, Len(s)))

\* The slice [:3].
Truncate(s) == SubSeq(s, 1, Min(ResultCap, Len(s)))

\* The loop of lines 44-48: the (company, score) pairs that reach the
\* threshold, in the order of company_list.
Matches(name, companies, th) ==
    LET F[i \in 0..Len(companies)] ==
            IF i = 0 THEN <<>>
            ELSE IF Score(name, companies[i]) >= th
                 THEN Append(F[i - 1], <<companies[i], Score(name, companies[i])>>)
                 ELSE F[i - 1]
    IN  F[Len(companies)]

\* suggest_company_name(input_name, company_list, threshold): there is no
\* fourth parameter; the function reads the global FUZZY_AVAILABLE itself.
suggest_company_name(name, companies, th) ==
    IF ~FUZZY_AVAILABLE THEN <<>>
    ELSE Truncate(sorted_by_score(Matches(name, companies, th)))

----------------------------------------------------------------------------
(* SpecSuggest: suggest_company_name applied to every query of Queries,    *)
(* every list of at most MaxCandidates names of CompanyPool and every      *)
(* threshold of Thresholds, with the similarity library present or absent. *)
(* limit is the number of results the caller would like: the signature has *)
(* no parameter to pass it in.                                             *)

CompanyPool == {<<"A", "c">>, <<"a", "c">>, <<"A", "b">>, <<"b">>}
Queries == {<<"a", "c">>, <<"A", "B">>}
Thresholds == {50, 67, DefaultThreshold}

InitSuggest ==
    /\ pc = "suggest_start"
    /\ FUZZY_AVAILABLE \in BOOLEAN
    /\ input_name \in Queries
    /\ \E n \in 0..MaxCandidates : company_list \in [1..n -> CompanyPool]
    /\ threshold \in Thresholds
    /\ limit \in 1..MaxLimit
    /\ suggestions = Idle
    /\ table = Idle /\ out = Idle /\ out2 = Idle
    /\ email = Idle /\ domain = Idle
    /\ file = Idle /\ cache = Idle /\ df = Idle /\ view = Idle /\ edited_df = Idle
    /\ search_term = Idle /\ company_input = Idle
    /\ exception = "none" /\ st_error = FALSE /\ suggest_calls = 0 /\ run = 0

Suggest ==
    /\ pc = "suggest_start"
    /\ suggestions' = suggest_company_name(input_name, company_list, threshold)
    /\ pc' = "suggested"
    /\ UNCHANGED <<table, out, out2, email, domain, FUZZY_AVAILABLE, input_name,
                   company_list, threshold, limit, file, cache, df, view,
                   search_term, company_input, edited_df, exception, st_error,
                   suggest_calls, run>>

NextSuggest == Suggest

SpecSuggest == InitSuggest /\ [][NextSuggest]_vars

Suggested == pc = "suggested"

\* C7: suggest_company_name returns only candidates of company_list whose
\* score reaches the threshold, each with its score, in descending order of
\* score, two of equal score in the order they have in company_list (the
\* returned candidates sit at increasing positions of company_list wherever
\* the scores tie); an empty company_list gives an empty result.
C7_RankedAboveThreshold ==
    Suggested =>
        /\ \A k \in 1..Len(suggestions) :
             /\ suggestions[k][2] = Score(input_name, suggestions[k][1])
             /\ suggestions[k][2] >= threshold
        /\ \A k \in 1..(Len(suggestions) - 1) :
             suggestions[k][2] >= suggestions[k + 1][2]
        /\ \E pos \in [1..Len(suggestions) -> 1..Len(company_list)] :
             /\ \A k \in 1..Len(suggestions) : company_list[pos[k]] = suggestions[k][1]
             /\ \A k, l \in 1..Len(suggestions) : k # l => pos[k] # pos[l]
             /\ \A k \in 1..(Len(suggestions) - 1) :
                  suggestions[k][2] = suggestions[k + 1][2] => pos[k] < pos[k + 1]
        /\ company_list = <<>> => suggestions = <<>>

\* Two different names tie at the top, a third candidate follows with a lower
\* score and a fourth is left out by the threshold.
C7_Witness ==
    /\ Suggested
    /\ Len(suggestions) = 3
    /\ suggestions[1][2] = suggestions[2][2]
    /\ suggestions[1][1] # suggestions[2][1]
    /\ suggestions[2][2] > suggestions[3][2]
    /\ \E i \in 1..Len(company_list) : Score(input_name, company_list[i]) < threshold

\* The positions of company_list whose score reaches the threshold.
Passing == {i \in 1..Len(company_list) : Score(input_name, company_list[i]) >= threshold}

\* Position i is ranked ahead of position j.
Ahead(i, j) ==
    \/ Score(input_name, company_list[i]) > Score(input_name, company_list[j])
    \/ /\ Score(input_name, company_list[i]) = Score(input_name, company_list[j])
       /\ i < j

\* The passing position of rank k (1 is the best).
Ranked(k) == CHOOSE i \in Passing : Cardinality({j \in Passing : Ahead(j, i)}) = k - 1

\* The n highest-ranked passing candidates, or all of them when there are fewer.
TopRanked(n) ==
    [k \in 1..Min(n, Cardinality(Passing)) |->
        <<company_list[Ranked(k)], Score(input_name, company_list[Ranked(k)])>>]

\* C8 as stated: the result holds at most limit candidates, the limit
\* highest-ranked ones that pass the threshold, limit being what the caller
\* asks for.
C8_CallerLimit ==
    Suggested =>
        /\ Len(suggestions) <= limit
        /\ FUZZY_AVAILABLE => suggestions = TopRanked(limit)

\* C8 as amended: the result holds at most 3 candidates whatever the caller
\* would like; with the library present they are the 3 highest-ranked
\* candidates that pass the threshold (all of them when fewer pass), cut after
\* sorting, and with the library absent the result is empty.
C8_FixedCap ==
    Suggested =>
        /\ Len(suggestions) <= ResultCap
        /\ FUZZY_AVAILABLE => suggestions = TopRanked(ResultCap)
        /\ ~FUZZY_AVAILABLE => suggestions = <<>>

\* Four candidates pass, the best of them last in company_list, and the cut
\* drops one that passed.
C8_Witness ==
    /\ Suggested
    /\ FUZZY_AVAILABLE
    /\ Cardinality(Passing) > ResultCap
    /\ Len(suggestions) = ResultCap
    /\ suggestions[1][1] = company_list[Len(company_list)]
    /\ suggestions[1][2] > suggestions[2][2]

----------------------------------------------------------------------------
(* The script: load_data (lines 52-59) behind st.cache_data, and main      *)
(* (lines 62-222), which Streamlit runs again on every interaction.        *)

NoneValue == [kind |-> "None"]
NoFile == [kind |-> "NoFile"]
NoCache == [kind |-> "NoCache"]

CsvFile(columns, rows) == [kind |-> "File", columns |-> columns, rows |-> rows]

\* pd.read_csv: a fresh frame numbered from 0; an empty field is read as a
\* missing cell.
read_csv(f) ==
    FreshFrame(f.columns,
               [k \in 1..Len(f.rows) |->
                   [c \in f.columns |-> IF f.rows[k][c] = <<>> THEN NaN ELSE f.rows[k][c]]])

\* The body of load_data on a cache miss: None after st.error when the file
\* is absent, otherwise what clean_data returns or raises.
load_data(f) ==
    IF f.kind = "NoFile" THEN NoneValue ELSE clean_data(read_csv(f))

\* A mutant of SuggestionsEnabled: the suggestion box is always drawn.
SuggestionsAlwaysEnabled == TRUE

\* The guard of line 108.
SuggestionsEnabled == FUZZY_AVAILABLE

\* Series.str.contains(term, case=False, na=False) for a term of plain letters.
contains(cell, term) ==
    /\ cell # NaN
    /\ \E i \in 1..(Len(cell) - Len(term) + 1) :
         lower(SubSeq(cell, i, i + Len(term) - 1)) = lower(term)

\* df[mask]: a new frame of the rows where the mask holds (line 104).
filter_rows(frame, term) ==
    TakeRows(frame,
             Positions({i \in 1..Len(frame.rows) :
                           \/ contains(frame.rows[i]["First Name"], term) \/ contains(frame.rows[i]["Company"], term)}))

\* df['Company'].dropna().unique(): the companies in order of first appearance.
unique_companies(frame) ==
    LET F[i \in 0..Len(frame.rows)] ==
            IF i = 0 THEN <<>>
            ELSE LET c == frame.rows[i]["Company"]
                 IN  IF c = NaN \/ \E j \in 1..Len(F[i - 1]) : F[i - 1][j] = c
                     THEN F[i - 1]
                     ELSE Append(F[i - 1], c)
    IN  F[Len(frame.rows)]

\* st.data_editor returns a frame of its own; the user leaves it as it is or
\* deletes its last row.
data_editor(frame, edit) ==
    IF edit = "delete_last" /\ Len(frame.rows) > 0
    THEN TakeRows(frame, [k \in 1..(Len(frame.rows) - 1) |-> k])
    ELSE frame

\* df[label] = ...: the frame itself gets one more column.
\* values holds the new cell of every row.
WithColumn(frame, label, values) ==
    DataFrame(frame.columns \cup {label},
              frame.index,
              [k \in 1..Len(frame.rows) |->
                  [c \in frame.columns \cup {label} |->
                      IF c = label THEN values[k] ELSE frame.rows[k][c]]])

\* Line 189.
WithEmailDomain(frame) ==
    WithColumn(frame, "Email Domain",
               [k \in 1..Len(frame.rows) |-> get_email_domain(frame.rows[k]["Email"])])

\* Line 204.
WithHasEmail(frame) ==
    WithColumn(frame, "Has Email",
               [k \in 1..Len(frame.rows) |-> frame.rows[k]["Email"] # NaN])

\* Line 220: Series.str.len() leaves a missing cell missing.
WithCompanyNameLength(frame) ==
    WithColumn(frame, "Company Name Length",
               [k \in 1..Len(frame.rows) |->
                   IF frame.rows[k]["Company"] = NaN THEN NaN
                   ELSE Len(frame.rows[k]["Company"])])

----------------------------------------------------------------------------
(* SpecApp: the script run up to MaxRuns times over one file.              *)

RawCells(c) ==
    CASE c = "First Name" -> {<<>>, Ann}
      [] c = "Email" -> {<<>>, <<"a", "@", "B">>}
      [] c = "Company" -> {<<>>, <<"A", "c">>, <<"a", "c">>}
      [] c = "Country" -> {<<"X">>}
      [] c = "City" -> {<<"Y">>}

AllRawCells ==
    UNION {RawCells(c) :
             c \in {"First Name", "Email", "Company", "Country", "City"}}

RawRowsOver(columns) ==
    {r \in [columns -> AllRawCells] : \A c \in columns : r[c] \in RawCells(c)}

FileColumnSets ==
    { {"First Name", "Email", "Company", "Country", "City"},
      {"First Name", "Email"},
      {"Company", "Country", "City"} }

SearchTerms == {<<>>, <<"a">>}
CompanyInputs == {<<>>, <<"a", "c">>, <<"A", "B">>}

InitApp ==
    /\ pc = "start"
    /\ \/ file = NoFile
       \/ \E columns \in FileColumnSets :
            \E n \in 0..MaxFileRows :
              \E rows \in [1..n -> RawRowsOver(columns)] :
                file = CsvFile(columns, rows)
    /\ FUZZY_AVAILABLE \in BOOLEAN
    /\ cache = NoCache
    /\ df = NoneValue
    /\ view = Idle /\ search_term = Idle /\ company_input = Idle
    /\ edited_df = NoneValue
    /\ suggestions = Idle
    /\ exception = "none" /\ st_error = FALSE /\ suggest_calls = 0 /\ run = 1
    /\ table = Idle /\ out = Idle /\ out2 = Idle
    /\ email = Idle /\ domain = Idle
    /\ input_name = Idle /\ company_list = Idle /\ threshold = 0 /\ limit = 0

\* Lines 64-66 on a cache hit: st.cache_data hands out a copy of the value it
\* holds and replays the st.error of the cached call.
MainLoadCached ==
    /\ pc = "start"
    /\ cache.kind # "NoCache"
    /\ df' = cache
    /\ st_error' = (cache.kind = "None")
    /\ pc' = IF cache.kind = "None" THEN "returned" ELSE "loaded"
    /\ UNCHANGED <<table, out, out2, email, domain, FUZZY_AVAILABLE, input_name,
                   company_list, threshold, limit, suggestions, file, cache, view,
                   search_term, company_input, edited_df, exception,
                   suggest_calls, run>>

\* Lines 64-66 on a cache miss: load_data runs; a FileNotFoundError becomes
\* st.error and None, which is cached and makes main return; the KeyError of
\* clean_data is not caught, leaves main and is not cached.
MainLoad ==
    /\ pc = "start"
    /\ cache.kind = "NoCache"
    /\ LET result == load_data(file)
       IN  CASE result.kind = "None" ->
                  /\ df' = NoneValue /\ cache' = NoneValue
                  /\ st_error' = TRUE /\ pc' = "returned"
                  /\ UNCHANGED exception
             [] result.kind = "KeyError" ->
                  /\ exception' = "KeyError" /\ pc' = "crashed"
                  /\ UNCHANGED <<df, cache, st_error>>
             [] OTHER ->
                  /\ df' = result /\ cache' = result /\ pc' = "loaded"
                  /\ UNCHANGED <<exception, st_error>>
    /\ UNCHANGED <<table, out, out2, email, domain, FUZZY_AVAILABLE, input_name,
                   company_list, threshold, limit, suggestions, file, view,
                   search_term, company_input, edited_df, suggest_calls, run>>

\* Lines 73-94: the summary reads Country, City and Company and writes nothing.
Overview ==
    /\ pc = "loaded"
    /\ view' = "Overview"
    /\ IF {"Country", "City", "Company"} \subseteq df.columns
       THEN pc' = "rendered" /\ UNCHANGED exception
       ELSE pc' = "crashed" /\ exception' = "KeyError"
    /\ UNCHANGED <<table, out, out2, email, domain, FUZZY_AVAILABLE, input_name,
                   company_list, threshold, limit, suggestions, file, cache, df,
                   search_term, company_input, edited_df, st_error,
                   suggest_calls, run>>

\* Lines 97-153: search, suggestions when enabled, the editor and the export.
\* The Company column is read by a non-empty search and by a non-empty
\* suggestion request.
TableView ==
    /\ pc = "loaded"
    /\ view' = "Table"
    /\ \E term \in SearchTerms, input \in CompanyInputs, edit \in {"none", "delete_last"} :
         LET asked == SuggestionsEnabled /\ input # <<>>
         IN  /\ search_term' = term
             /\ company_input' = IF SuggestionsEnabled THEN input ELSE Idle
             /\ IF (term # <<>> \/ asked) /\ "Company" \notin df.columns
                THEN /\ pc' = "crashed" /\ exception' = "KeyError"
                     /\ UNCHANGED <<company_list, suggestions, edited_df, suggest_calls>>
                ELSE /\ pc' = "rendered"
                     /\ edited_df' =
                            data_editor(IF term # <<>> THEN filter_rows(df, term) ELSE df,
                                        edit)
                     /\ IF asked
                        THEN /\ company_list' = unique_companies(df)
                             /\ suggestions' =
                                    suggest_company_name(input, unique_companies(df),
                                                         DefaultThreshold)
                             /\ suggest_calls' = suggest_calls + 1
                        ELSE UNCHANGED <<company_list, suggestions, suggest_calls>>
                     /\ UNCHANGED exception
    /\ UNCHANGED <<table, out, out2, email, domain, FUZZY_AVAILABLE, input_name,
                   threshold, limit, file, cache, df, st_error, run>>

\* Lines 156-222: the charts read Country, City, Email and Company, and lines
\* 189, 204 and 220 assign three columns to df itself.
StatsView ==
    /\ pc = "loaded"
    /\ view' = "Stats"
    /\ IF ~({"Country", "City"} \subseteq df.columns)
       THEN /\ pc' = "crashed" /\ exception' = "KeyError"
            /\ UNCHANGED df
       ELSE IF "Company" \notin df.columns
       THEN /\ pc' = "crashed" /\ exception' = "KeyError"
            /\ df' = WithEmailDomain(df)
       ELSE /\ pc' = "rendered"
            /\ df' = WithCompanyNameLength(WithHasEmail(WithEmailDomain(df)))
            /\ UNCHANGED exception
    /\ UNCHANGED <<table, out, out2, email, domain, FUZZY_AVAILABLE, input_name,
                   company_list, threshold, limit, suggestions, file, cache,
                   search_term, company_input, edited_df, st_error,
                   suggest_calls, run>>

\* An interaction: Streamlit runs the script again from the top; the locals of
\* the run that ended are gone, the cache and the file stay.
Rerun ==
    /\ pc \in {"rendered", "returned", "crashed"}
    /\ run < MaxRuns
    /\ run' = run + 1
    /\ pc' = "start"
    /\ df' = NoneValue /\ edited_df' = NoneValue
    /\ view' = Idle /\ search_term' = Idle /\ company_input' = Idle
    /\ suggestions' = Idle /\ company_list' = Idle
    /\ exception' = "none" /\ st_error' = FALSE
    /\ UNCHANGED <<table, out, out2, email, domain, FUZZY_AVAILABLE, input_name,
                   threshold, limit, file, cache, suggest_calls>>

NextApp == MainLoadCached \/ MainLoad \/ Overview \/ TableView \/ StatsView \/ Rerun

SpecApp == InitApp /\ [][NextApp]_vars

----------------------------------------------------------------------------
(* Claims about the script, checked under SpecApp.                         *)

\* The load step of the current run is over.
AfterLoad == pc # "start"

HasRequiredColumns == RequiredColumns \subseteq file.columns

\* C5: a dataset without the required columns ends the load step in a
\* KeyError that leaves main: no table is returned, none is cached, and the
\* outcome is not the not-found one; a missing file gives the not-found
\* outcome, st.error and None, with no table returned and no exception.
C5_SchemaErrorPropagates ==
    AfterLoad =>
        /\ (file.kind = "File" /\ ~HasRequiredColumns) =>
               /\ pc = "crashed" /\ exception = "KeyError"
               /\ df = NoneValue /\ cache = NoCache
               /\ ~st_error
        /\ file.kind = "NoFile" =>
               /\ pc = "returned" /\ exception = "none"
               /\ df = NoneValue
               /\ run = 1 => st_error

\* A file with rows and without First Name and Email has been loaded.
C5_Witness ==
    /\ pc = "crashed"
    /\ file.kind = "File"
    /\ file.columns \cap RequiredColumns = {}
    /\ Len(file.rows) > 0
    /\ exception = "KeyError"

\* main calls suggest_company_name only with the library present.
CalledOnlyWhenAvailable == suggest_calls > 0 => FUZZY_AVAILABLE

\* What lines 44-49 compute, whatever FUZZY_AVAILABLE is.
Algorithm(name, companies, th) == Truncate(sorted_by_score(Matches(name, companies, th)))

\* The Table view was drawn over a table that has a Company column.
TableShown == pc = "rendered" /\ view = "Table" /\ "Company" \in df.columns

\* C9 as stated: suggest_company_name is called only with the library
\* present, and the function itself has no 'unavailable' state: on the
\* companies of the table it returns what the algorithm computes.
C9_NoUnavailableState ==
    /\ CalledOnlyWhenAvailable
    /\ TableShown =>
           \A q \in CompanyInputs :
               suggest_company_name(q, unique_companies(df), DefaultThreshold)
                   = Algorithm(q, unique_companies(df), DefaultThreshold)

\* C9 as amended: main calls suggest_company_name only with the library
\* present (the check of line 108), and the function checks again itself: with
\* the library absent it returns the empty list, with it present what the
\* algorithm computes.
C9_CheckedAtBothPlaces ==
    /\ CalledOnlyWhenAvailable
    /\ TableShown =>
           \A q \in CompanyInputs :
               suggest_company_name(q, unique_companies(df), DefaultThreshold)
                   = IF FUZZY_AVAILABLE
                     THEN Algorithm(q, unique_companies(df), DefaultThreshold)
                     ELSE <<>>

\* The Table view was shown without the library, over a table a request would
\* have found a match in, and no call was made.
C9_Witness ==
    /\ TableShown
    /\ ~FUZZY_AVAILABLE
    /\ suggest_calls = 0
    /\ \E q \in CompanyInputs :
         Algorithm(q, unique_companies(df), DefaultThreshold) # <<>>

\* The table the cleaner produced from the file.
Canonical == clean_data(read_csv(file))

\* C10: once the canonical table is produced, no view rendering changes the
\* rows, columns or values of the table main holds: every later consumer of
\* df sees exactly the cleaner's output.
C10_TableNeverMutated ==
    (pc \in {"loaded", "rendered", "crashed"} /\ IsFrame(df)) =>
        /\ df.columns = Canonical.columns
        /\ df.index = Canonical.index
        /\ df.rows = Canonical.rows

\* What does hold: the Overview and Table views leave df as the cleaner made
\* it, and the cached table is never changed.
C10_OverviewAndTableOnly ==
    /\ (IsFrame(df) /\ view # "Stats") => df = Canonical
    /\ IsFrame(cache) => cache = Canonical

====
